---- MODULE Spec2Model ----
(***************************************************************************)
(* The flui migration scripts as a state machine.                          *)
(*                                                                         *)
(* A file's content is a sequence of tokens; the text it stands for is the *)
(* concatenation of the tokens, in order, with nothing between them.  Every*)
(* literal piece of a script's regular expressions and replacement texts   *)
(* is a token (or a run of tokens), so a match of a pattern in the text is *)
(* a run of whole tokens and re.sub becomes a rewriting of token sequences.*)
(* The storage is `disk`; one action is one iteration of a script's main   *)
(* loop (the per-file function, with its read, its rules, and its write).  *)
(***************************************************************************)
EXTENDS Integers, Sequences, FiniteSets, TLC

VARIABLES
  scripts,   \* the scripts of this session, in the order they are invoked
  cur,       \* index in `scripts` of the script that is running
  pc,        \* "main": main() is about to list its files; "loop": in its loop;
             \* "finished": every script of the session has returned;
             \* "crashed": an exception nothing caught has ended the script
  todo,      \* the files (or per-file functions) main's loop has still to visit
  disk,      \* storage: file name -> content, for the files that exist
  count,     \* main's updated_count / fixed_count / fixed
  log        \* one record per call of a per-file function, in call order

vars == << scripts, cur, pc, todo, disk, count, log >>

(***************************************************************************)
(* Bounds of the model.                                                    *)
(***************************************************************************)
\* lines on storage, summed over the files of the target set, per script family
MaxLinesMigrate == 3
MaxLinesUpdate == 3
MaxLinesScripts == 3
MaxLinesLayouts == 2
MaxLinesChildSize == 3
MaxLinesRender == 4

(***************************************************************************)
(* Small helpers.                                                          *)
(***************************************************************************)
Min(S) == CHOOSE x \in S : \A y \in S : x <= y
Max(S) == CHOOSE x \in S : \A y \in S : x >= y

\* all sequences over S of length 0..n
RECURSIVE SeqsUpTo(_, _)
SeqsUpTo(S, n) ==
  IF n = 0 THEN { << >> }
  ELSE LET R == SeqsUpTo(S, n - 1)
       IN  R \cup { Append(r, x) : r \in { q \in R : Len(q) = n - 1 }, x \in S }

\* the run of tokens `pat` stands in s at position i
IsAt(s, i, pat) ==
  /\ i >= 1
  /\ i + Len(pat) - 1 <= Len(s)
  /\ \A k \in 1..Len(pat) : s[i + k - 1] = pat[k]

\* `in` (substring test) for a text that is a run of whole tokens
Contains(s, pat) == \E i \in 1..Len(s) : IsAt(s, i, pat)

(***************************************************************************)
(* Tokens of migrate_slivers.py                                            *)
(***************************************************************************)
MT ==
  [ Use |-> "use flui_core::render::{",
    Arity |-> "Arity",
    Comma |-> ", ",
    LayoutContext |-> "LayoutContext",
    PaintContext |-> "PaintContext",
    Render |-> "Render",
    Sliver |-> "Sliver",
    UseEnd |-> "};\n",
    Impl |-> "impl ",
    For |-> " for ",
    List |-> "List",
    Box |-> "Box",
    Open |-> " {\n",
    Indent |-> "    ",
    FnLayout |-> "fn layout(&mut self, ctx: &",
    RetSize |-> ") -> Size",
    RetGeometry |-> ") -> SliverGeometry",
    FnPaint |-> "fn paint(&self, ctx: &",
    RetCanvas |-> ") -> Canvas",
    Close |-> "}\n" ]

(***************************************************************************)
(* Tokens of scripts/update_render_context.py                              *)
(***************************************************************************)
UT ==
  [ FnLayoutBox |-> "fn layout(&mut self, constraints: BoxConstraints",
    FnPaintBox |-> "fn paint(&self, painter: &egui::Painter, offset: Offset",
    Underscore |-> "_",
    Ctx |-> "ctx",
    ParamType |-> ": &flui_core::RenderContext",
    RParen |-> ")",
    Semi |-> ";",
    NL |-> "\n",
    ChildLayout |-> "child.layout(",
    ChildPaintP |-> "child.paint(painter, ",
    Constraints |-> "constraints",
    Offset |-> "offset" ]

(***************************************************************************)
(* Tokens of scripts/fix_remaining_patterns.py, fix_syntax_errors.py,      *)
(* final_cleanup.py and fix_child_size.py                                  *)
(***************************************************************************)
ST ==
  [ IfLetChild |-> "if let Some(child) = self.child() {",
    ChildrenIds |-> "let children_ids = ctx.children();",
    IfLetChildId |-> "if let Some(&child_id) = children_ids.first() {",
    Space |-> " ",
    Indent8 |-> "        ",
    LetSize |-> "let size =",
    LetChildSize |-> "let child_size =",
    LetOffset |-> "let offset =",
    LetIgnore |-> "let _ = ",
    ChildPaint |-> "child.paint(",
    PainterOffset |-> "painter, offset",
    ChildSize |-> "child.size()",
    CtxChildSize |-> "ctx.child_size(child_id)",
    ChildSizeFromTree |->
      "// Get child size from tree\n                let child_size = if let Some(child_elem) = ctx.tree().get(child_id) {\n                    if let Some(child_ro) = child_elem.render_object() {\n                        child_ro.size()\n                    } else {\n                        Size::ZERO\n                    }\n                } else {\n                    Size::ZERO\n                };",
    CtxLayoutChild |-> "ctx.layout_child(child_id",
    CtxPaintChild |-> "ctx.paint_child(child_id",
    FnLayoutRef |-> "fn layout(&self, constraints: BoxConstraints" ]

(***************************************************************************)
(* Tokens of scripts/fix_render_context.py: the literal parts of the two   *)
(* patterns and of their replacements, and what a paint method can hold    *)
(* besides them.                                                           *)
(***************************************************************************)
RT ==
  [ PaintSig |->
      "fn paint(&self, painter: &egui::Painter, offset: Offset, _ctx: &flui_core::RenderContext) {\n        ",
    PaintSigNew |->
      "fn paint(&self, painter: &egui::Painter, offset: Offset, ctx: &flui_core::RenderContext) {\n        ",
    PaintBlock |->
      "if let Some(child) = self.child() {\n            child.paint(painter, offset, _ctx);\n        }\n    }",
    PaintBlockNew |->
      "// Get children from ElementTree via RenderContext\n        let children_ids = ctx.children();\n\n        if let Some(&child_id) = children_ids.first() {\n            ctx.paint_child(child_id, painter, offset);\n        }\n    }",
    LayoutHead |->
      "fn layout(&self, constraints: BoxConstraints, _ctx: &flui_core::RenderContext) -> Size {\n        // Store constraints\n        *self.state().constraints.lock() = Some(constraints);\n\n        // Layout child with same constraints\n        let size = if let Some(child) = self.child() {\n            child.layout(constraints, _ctx)\n        } else {\n            ",
    LayoutHeadNew |->
      "fn layout(&self, constraints: BoxConstraints, ctx: &flui_core::RenderContext) -> Size {\n        // Store constraints\n        *self.state().constraints.lock() = Some(constraints);\n\n        // Get children from ElementTree via RenderContext\n        let children_ids = ctx.children();\n\n        // Layout child with same constraints\n        let size = if let Some(&child_id) = children_ids.first() {\n            ctx.layout_child(child_id, constraints)\n        } else {\n            ",
    LayoutTail |->
      "\n        };\n\n        // Store size and clear needs_layout flag\n        *self.state().size.lock() = Some(size);\n        self.clear_needs_layout();\n\n        size\n    }",
    Zero |->
      "Size::ZERO",
    Stmt |->
      "painter.rect(offset);\n        ",
    OtherEnd |->
      "self.draw(painter);\n    }\n" ]

(***************************************************************************)
(* Tokens of fix_sliver_layouts.py: each pattern and each replacement is   *)
(* one literal text.                                                       *)
(***************************************************************************)
LT ==
  [ OldLayout |-> "    fn layout(&mut self, ctx: &SliverLayoutContext) -> SliverGeometry {\n        let constraints = &ctx.constraints;\n\n        let child_size = Size::new(\n            constraints.max_width,\n            constraints.max_height,\n        );\n\n        self.child_size",
    NewLayout |-> "    fn layout(&mut self, ctx: &SliverLayoutContext) -> SliverGeometry {\n        let constraints = &ctx.constraints;\n\n        // Placeholder: Fill remaining viewport space\n        let extent = constraints.remaining_paint_extent;\n\n        SliverGeometry::simple(extent, extent)",
    SizeNew |-> "Size::new(constraints.max_width, constraints.max_height)",
    FillViewport |-> "SliverGeometry::simple(ctx.constraints.remaining_paint_extent, ctx.constraints.remaining_paint_extent)",
    FixedExtentList |-> "SliverGeometry::simple(0.0, 0.0)  // TODO: Implement proper fixed extent list layout",
    Grid |-> "SliverGeometry::simple(0.0, 0.0)  // TODO: Implement proper grid layout",
    ListTodo |-> "SliverGeometry::simple(0.0, 0.0)  // TODO: Implement proper list layout",
    PrototypeExtentList |-> "SliverGeometry::simple(0.0, 0.0)  // TODO: Implement proper prototype extent list layout",
    AppBar |-> "SliverGeometry::simple(self.expanded_height, self.collapsed_height.min(ctx.constraints.remaining_paint_extent))",
    CrossOld |-> "self.cross_axis_extent = constraints.max_width;",
    CrossNew |-> "self.cross_axis_extent = ctx.constraints.cross_axis_extent;",
    LetConstraints |-> "let constraints = &ctx.constraints;" ]

\* tokens whose last / first character is a word character (\w), for \b and \w+
WordEndTokens ==
  { MT.Arity, MT.LayoutContext, MT.PaintContext, MT.Render, MT.Sliver, MT.List, MT.Box,
    MT.RetSize, MT.RetGeometry, MT.RetCanvas,
    UT.FnLayoutBox, UT.FnPaintBox, UT.Underscore, UT.Ctx, UT.ParamType, UT.Constraints,
    UT.Offset, ST.PainterOffset, ST.FnLayoutRef, ST.CtxLayoutChild, ST.CtxPaintChild }
WordStartTokens ==
  { MT.Use, MT.Arity, MT.LayoutContext, MT.PaintContext, MT.Render, MT.Sliver, MT.List, MT.Box,
    MT.Impl, MT.FnLayout, MT.FnPaint,
    UT.FnLayoutBox, UT.FnPaintBox, UT.Underscore, UT.Ctx, UT.ChildLayout, UT.ChildPaintP,
    UT.Constraints, UT.Offset,
    ST.IfLetChild, ST.ChildrenIds, ST.IfLetChildId, ST.LetSize, ST.LetChildSize,
    ST.LetOffset, ST.LetIgnore, ST.ChildPaint, ST.PainterOffset, ST.ChildSize,
    ST.CtxChildSize, ST.CtxLayoutChild, ST.CtxPaintChild, ST.FnLayoutRef }
\* tokens made of word characters only
WordTokens ==
  { MT.Arity, MT.LayoutContext, MT.PaintContext, MT.Render, MT.Sliver, MT.List, MT.Box,
    UT.Underscore, UT.Ctx, UT.Constraints, UT.Offset }
\* tokens that contain a closing brace
RBraceTokens == { MT.UseEnd, MT.Close }
\* tokens that contain a ')': each of them starts with it
RParenTokens == { UT.RParen, MT.RetSize, MT.RetGeometry, MT.RetCanvas }
\* tokens that contain a line break
NewlineTokens == { UT.NL, MT.Open, MT.UseEnd, MT.Close }
\* tokens made of white space only (\s)
SpaceTokens == { UT.NL, ST.Space, MT.Indent, ST.Indent8 }

EndsWord(t)   == t \in WordEndTokens
StartsWord(t) == t \in WordStartTokens

\* \b just before token i, which starts with a word character
BoundaryBefore(s, i) == i = 1 \/ ~EndsWord(s[i - 1])
\* \b just after token j, which ends with a word character
BoundaryAfter(s, j) == j = Len(s) \/ ~StartsWord(s[j + 1])

\* where [^}]* must stop: the first token at or after i that holds a '}'
NextRBrace(s, i) ==
  LET K == { k \in i..Len(s) : s[k] \in RBraceTokens }
  IN  IF K = {} THEN Len(s) + 1 ELSE Min(K)

(***************************************************************************)
(* migrate_slivers.migrate_file, rule by rule.  For each rule, XxxEnd(s,i) *)
(* is the last token of the match that starts at token i (0: no match at   *)
(* i) and XxxNew(s,i,j) the text that replaces tokens i..j.                *)
(***************************************************************************)
\* Step 1, first re.sub:
\*   use flui_core::render::\{([^}]*\b)Render(\b[^}]*)\};
\* greedy: the last stand-alone Render before the first '}', which must be '};'
ImportRenderAt(s, i) ==
  IF s[i] # MT.Use THEN 0
  ELSE LET c == NextRBrace(s, i + 1)
           K == { k \in (i + 1)..(c - 1) :
                    s[k] = MT.Render /\ BoundaryBefore(s, k) /\ BoundaryAfter(s, k) }
       IN  IF c <= Len(s) /\ s[c] = MT.UseEnd /\ K # {} THEN Max(K) ELSE 0
ImportRenderEnd(s, i) ==
  IF ImportRenderAt(s, i) = 0 THEN 0 ELSE NextRBrace(s, i + 1)
ImportRenderNew(s, i, j) ==
  LET k == ImportRenderAt(s, i)
  IN  SubSeq(s, i, k - 1) \o << MT.Render, MT.Sliver >> \o SubSeq(s, k + 1, j)

\* Step 1, second and third re.sub:
\*   (\buse flui_core::render::\{[^}]*)LayoutContext   (and PaintContext)
\* greedy: the last such name before the first '}' (or the end of the text)
ImportNameEnd(name, s, i) ==
  IF s[i] # MT.Use \/ ~BoundaryBefore(s, i) THEN 0
  ELSE LET c == NextRBrace(s, i + 1)
           K == { k \in (i + 1)..(c - 1) : s[k] = name }
       IN  IF K # {} THEN Max(K) ELSE 0
ImportNameNew(name, s, i, j) ==
  SubSeq(s, i, j - 1) \o << MT.Sliver, name >>

\* Step 2:  \bimpl Render for (RenderSliver\w+)
\* \w+ is greedy: it takes the whole word tokens that follow and the leading
\* word characters of the token after them; it needs at least one character
ImplPattern == << MT.Impl, MT.Render, MT.For, MT.Render, MT.Sliver >>
WordRunEnd(s, i) ==
  LET K == { k \in i..Len(s) : s[k] \notin WordTokens }
      k == IF K = {} THEN Len(s) + 1 ELSE Min(K)
  IN  IF k <= Len(s) /\ StartsWord(s[k]) THEN k ELSE k - 1
\* a faulty step 2 whose type name runs on to the next '}', as the [^}]* of
\* step 1 does
ImplEndToBrace(s, i) ==
  IF IsAt(s, i, ImplPattern) /\ BoundaryBefore(s, i)
  THEN NextRBrace(s, i + 5) - 1 ELSE 0

ImplEnd(s, i) ==
  IF /\ IsAt(s, i, ImplPattern)
     /\ BoundaryBefore(s, i)
     /\ WordRunEnd(s, i + 5) >= i + 5
  THEN WordRunEnd(s, i + 5) ELSE 0
ImplNew(s, i, j) ==
  << MT.Impl, MT.Render, MT.Sliver, MT.For, MT.Render, MT.Sliver >> \o SubSeq(s, i + 5, j)

\* Step 3:  fn layout\(&mut self, ctx: &LayoutContext\) -> Size
LayoutPattern == << MT.FnLayout, MT.LayoutContext, MT.RetSize >>
LayoutEnd(s, i) == IF IsAt(s, i, LayoutPattern) THEN i + 2 ELSE 0
\* a faulty step 3 that leaves the return type
LayoutNewKeepsSize(s, i, j) ==
  << MT.FnLayout, MT.Sliver, MT.LayoutContext, MT.RetSize >>

LayoutNew(s, i, j) == << MT.FnLayout, MT.Sliver, MT.LayoutContext, MT.RetGeometry >>

\* Step 4:  fn paint\(&self, ctx: &PaintContext\) -> Canvas
PaintPattern == << MT.FnPaint, MT.PaintContext, MT.RetCanvas >>
PaintEnd(s, i) == IF IsAt(s, i, PaintPattern) THEN i + 2 ELSE 0
PaintNew(s, i, j) == << MT.FnPaint, MT.Sliver, MT.PaintContext, MT.RetCanvas >>

(***************************************************************************)
(* scripts/update_render_context.py, rule by rule                          *)
(***************************************************************************)
\* '_ctx' and 'ctx' as a parameter of a signature
UnusedCtxParam == << UT.Underscore, UT.Ctx, UT.ParamType >>
CtxParam       == << UT.Ctx, UT.ParamType >>

\* update_layout_signature:
\*   fn layout\(&mut self, constraints: BoxConstraints\) -> Size
SigLayoutEnd(s, i) ==
  IF IsAt(s, i, << UT.FnLayoutBox, MT.RetSize >>) THEN i + 1 ELSE 0
SigLayoutNew(s, i, j) ==
  << UT.FnLayoutBox, MT.Comma >> \o UnusedCtxParam \o << MT.RetSize >>

\* update_paint_signature:
\*   fn paint\(&self, painter: &egui::Painter, offset: Offset\)
\* the ')' is the first character of the next token, which stays
SigPaintEnd(s, i) ==
  IF s[i] = UT.FnPaintBox /\ i < Len(s) /\ s[i + 1] \in RParenTokens
  THEN i ELSE 0
SigPaintNew(s, i, j) == << UT.FnPaintBox, MT.Comma >> \o UnusedCtxParam

\* update_child_layout_calls / update_child_paint_calls:
\*   child\.layout\(([^)]+)\)      child\.paint\(painter, ([^)]+)\)
\* [^)]+ runs, over line breaks too, to the first ')' and is not empty; the
\* token that starts with that ')' stays
NextRParen(s, i) ==
  LET K == { k \in i..Len(s) : s[k] \in RParenTokens }
  IN  IF K = {} THEN Len(s) + 1 ELSE Min(K)
ChildCallEnd(open, s, i) ==
  IF s[i] = open /\ NextRParen(s, i + 1) <= Len(s) /\ NextRParen(s, i + 1) > i + 1
  THEN NextRParen(s, i + 1) - 1 ELSE 0
ChildCallNew(s, i, j) == SubSeq(s, i, j) \o << MT.Comma, UT.Ctx >>

\* content.replace('_ctx: &flui_core::RenderContext', 'ctx: &flui_core::RenderContext')
RenameEnd(s, i) == IF IsAt(s, i, UnusedCtxParam) THEN i + 2 ELSE 0
RenameNew(s, i, j) == CtxParam

\* 'child.' in content
HasChildDot(s) == \E i \in 1..Len(s) : s[i] \in { UT.ChildLayout, UT.ChildPaintP }
\* '_ctx' in content
HasUnusedCtx(s) == Contains(s, << UT.Underscore, UT.Ctx >>)

(***************************************************************************)
(* scripts/fix_remaining_patterns.py, rule by rule                         *)
(***************************************************************************)
\* (.*?) followed by the text `term`: the first place at or after `from`
\* where term stands (and, with `paren`, a ')' follows it), no line break
\* before it ('.' does not match one); 0 if there is none
LazyFind(s, from, term, paren) ==
  LET K == { k \in from..Len(s) :
               /\ IsAt(s, k, term)
               /\ paren => /\ k + Len(term) <= Len(s)
                           /\ s[k + Len(term)] \in RParenTokens
               /\ \A m \in from..(k - 1) : s[m] \notin NewlineTokens }
  IN  IF K = {} THEN 0 ELSE Min(K)

\* ', _ctx);'  and  ', _ctx'
UnusedCtxArgEnd == << MT.Comma, UT.Underscore, UT.Ctx, UT.RParen, UT.Semi >>
UnusedCtxArg    == << MT.Comma, UT.Underscore, UT.Ctx >>

\* \s*: the first token at or after i that is not white space
SkipSpace(s, i) ==
  LET K == { k \in i..Len(s) : s[k] \notin SpaceTokens }
  IN  IF K = {} THEN Len(s) + 1 ELSE Min(K)

\* Patterns 1 and 2:
\*   if let Some\(child\) = self\.child\(\) \{\s*child\.layout\((.*?), _ctx\);
\* (and child\.paint); `call` is the token of the call, `new` of its rewriting
IfLetCallAt(call, s, i) ==
  IF s[i] # ST.IfLetChild THEN 0
  ELSE LET w == SkipSpace(s, i + 1)
       IN  IF w <= Len(s) /\ s[w] = call THEN w ELSE 0
IfLetCallEnd(call, s, i) ==
  LET w == IfLetCallAt(call, s, i)
      k == IF w = 0 THEN 0 ELSE LazyFind(s, w + 1, UnusedCtxArgEnd, FALSE)
  IN  IF k = 0 THEN 0 ELSE k + 4
IfLetCallNew(call, new, s, i, j) ==
  << ST.ChildrenIds, UT.NL, ST.Indent8, ST.IfLetChildId, UT.NL, ST.Indent8, MT.Indent, new,
     MT.Comma >>
    \o SubSeq(s, IfLetCallAt(call, s, i) + 1, j - 5) \o << UT.RParen, UT.Semi >>

\* Pattern 3:  let _ = child\.layout\((.*?), _ctx\);
IgnoredLayoutEnd(s, i) ==
  LET k == IF IsAt(s, i, << ST.LetIgnore, UT.ChildLayout >>)
           THEN LazyFind(s, i + 2, UnusedCtxArgEnd, FALSE) ELSE 0
  IN  IF k = 0 THEN 0 ELSE k + 4
IgnoredLayoutNew(s, i, j) ==
  << ST.LetIgnore, ST.CtxLayoutChild, MT.Comma >> \o SubSeq(s, i + 2, j - 5)
    \o << UT.RParen, UT.Semi >>

\* Pattern 4:  \bchild\.paint\((.*?), _ctx\);
ChildPaintEnd(s, i) ==
  LET k == IF s[i] = ST.ChildPaint /\ BoundaryBefore(s, i)
           THEN LazyFind(s, i + 1, UnusedCtxArgEnd, FALSE) ELSE 0
  IN  IF k = 0 THEN 0 ELSE k + 4
ChildPaintNew(s, i, j) ==
  << ST.CtxPaintChild, MT.Comma >> \o SubSeq(s, i + 1, j - 5)
    \o << UT.RParen, UT.Semi >>

\* Pattern 5:  \bchild\.size\(\)
ChildSizeEnd(s, i) ==
  IF s[i] = ST.ChildSize /\ BoundaryBefore(s, i) THEN i ELSE 0
ChildSizeNew(s, i, j) == << ST.CtxChildSize >>

\* Pattern 6, both signatures:
\*   fn layout\(&self, constraints: BoxConstraints, _ctx: &flui_core::RenderContext\)
\*   fn paint\(&self, painter: &egui::Painter, offset: Offset, _ctx: &flui_core::RenderContext\)
\* the ')' is the first character of the next token, which stays
SigCtxEnd(fn, s, i) ==
  IF /\ IsAt(s, i, << fn, MT.Comma >> \o UnusedCtxParam)
     /\ i + 5 <= Len(s)
     /\ s[i + 5] \in RParenTokens
  THEN i + 4 ELSE 0
SigCtxNew(fn, s, i, j) == << fn, MT.Comma >> \o CtxParam

\* Pattern 7:  if let Some\(child\) = self\.child\(\) \{
IfLetEnd(s, i) == IF s[i] = ST.IfLetChild THEN i ELSE 0
IfLetNew(s, i, j) == << ST.ChildrenIds, UT.NL, ST.Indent8, ST.IfLetChildId >>

\* 'self.child()' in content
HasSelfChild(s) == \E i \in 1..Len(s) : s[i] = ST.IfLetChild

(***************************************************************************)
(* scripts/fix_syntax_errors.py, rule by rule                              *)
(***************************************************************************)
\* let (size|child_size) = let children_ids = ctx\.children\(\);
\* a faulty pattern that stands nowhere
NeverMatches(s, i) == 0

LetNames == { ST.LetSize, ST.LetChildSize }
LetLetEnd(s, i) ==
  IF s[i] \in LetNames /\ IsAt(s, i + 1, << ST.Space, ST.ChildrenIds >>)
  THEN i + 2 ELSE 0
LetLetNew(s, i, j) == << ST.ChildrenIds, UT.NL, ST.Indent8, s[i] >>

\* \bchild\.layout\(    and    \bchild\.paint\(
ChildCallOpenEnd(call, s, i) ==
  IF s[i] = call /\ BoundaryBefore(s, i) THEN i ELSE 0

(***************************************************************************)
(* scripts/final_cleanup.py, rule by rule                                  *)
(***************************************************************************)
\* ctx\.layout_child\((.*?), _ctx\)    and    ctx\.paint_child\((.*?), _ctx\)
\* the ')' is the first character of the next token, which stays
CtxCallEnd(call, s, i) ==
  LET k == IF s[i] = call THEN LazyFind(s, i + 1, UnusedCtxArg, TRUE) ELSE 0
  IN  IF k = 0 THEN 0 ELSE k + 2
CtxCallNew(s, i, j) == SubSeq(s, i, j - 3)

\* fn (layout|paint)\((.*?), _ctx: &flui_core::RenderContext\)
FnTokens == { ST.FnLayoutRef, UT.FnPaintBox, UT.FnLayoutBox, MT.FnLayout, MT.FnPaint }
FnCtxEnd(s, i) ==
  LET k == IF s[i] \in FnTokens
           THEN LazyFind(s, i + 1, << MT.Comma >> \o UnusedCtxParam, TRUE) ELSE 0
  IN  IF k = 0 THEN 0 ELSE k + 3
FnCtxNew(s, i, j) == SubSeq(s, i, j - 3) \o CtxParam

(***************************************************************************)
(* fix_sliver_layouts.py                                                   *)
(***************************************************************************)
LiteralEnd(t, s, i) == IF s[i] = t THEN i ELSE 0

\* a faulty table in which every function carries fix_sliver_grid's literal
GridEverywhere(rule) == LT.Grid

\* the literal each function puts in the place of Size::new(...)
Placeholder(rule) ==
  CASE rule = "Size::new fill_viewport"          -> LT.FillViewport
    [] rule = "Size::new fixed_extent_list"      -> LT.FixedExtentList
    [] rule = "Size::new grid"                   -> LT.Grid
    [] rule = "Size::new list"                   -> LT.ListTodo
    [] rule = "Size::new prototype_extent_list"  -> LT.PrototypeExtentList
    [] rule = "Size::new app_bar"                -> LT.AppBar

SizeNewRules ==
  { "Size::new fill_viewport", "Size::new fixed_extent_list",
    "Size::new grid", "Size::new list", "Size::new prototype_extent_list",
    "Size::new app_bar" }

(***************************************************************************)
(* scripts/fix_render_context.py                                           *)
(***************************************************************************)
\* (.*?) under re.DOTALL, up to the literal t that follows it: the nearest t
\* from position `from` on, newlines or not in between
DotAllFind(s, from, t) ==
  LET K == { k \in from..Len(s) : s[k] = t }
  IN  IF K = {} THEN 0 ELSE Min(K)

\* 'constraints.max_width' in content
MaxWidthTokens == { LT.SizeNew, LT.CrossOld, LT.OldLayout }
HasMaxWidth(s) == \E i \in 1..Len(s) : s[i] \in MaxWidthTokens

(***************************************************************************)
(* re.sub(pattern, repl, content): scan from the left; at a match, emit    *)
(* the replacement and go on after the match; otherwise keep the token.    *)
(***************************************************************************)
MatchEnd(rule, s, i) ==
  CASE rule = "import Render"        -> ImportRenderEnd(s, i)
    [] rule = "import LayoutContext" -> ImportNameEnd(MT.LayoutContext, s, i)
    [] rule = "import PaintContext"  -> ImportNameEnd(MT.PaintContext, s, i)
    [] rule = "impl"                 -> ImplEnd(s, i)
    [] rule = "layout"               -> LayoutEnd(s, i)
    [] rule = "paint"                -> PaintEnd(s, i)
    [] rule = "layout signature"     -> SigLayoutEnd(s, i)
    [] rule = "paint signature"      -> SigPaintEnd(s, i)
    [] rule = "child layout call"    -> ChildCallEnd(UT.ChildLayout, s, i)
    [] rule = "child paint call"     -> ChildCallEnd(UT.ChildPaintP, s, i)
    [] rule = "rename _ctx"          -> RenameEnd(s, i)
    [] rule = "Pattern 1"            -> IfLetCallEnd(UT.ChildLayout, s, i)
    [] rule = "Pattern 2"            -> IfLetCallEnd(ST.ChildPaint, s, i)
    [] rule = "Pattern 3"            -> IgnoredLayoutEnd(s, i)
    [] rule = "Pattern 4"            -> ChildPaintEnd(s, i)
    [] rule = "Pattern 5"            -> ChildSizeEnd(s, i)
    [] rule = "Pattern 6 layout"     -> SigCtxEnd(ST.FnLayoutRef, s, i)
    [] rule = "Pattern 6 paint"      -> SigCtxEnd(UT.FnPaintBox, s, i)
    [] rule = "Pattern 7"            -> IfLetEnd(s, i)
    [] rule = "let let"              -> LetLetEnd(s, i)
    [] rule = "child.layout("        -> ChildCallOpenEnd(UT.ChildLayout, s, i)
    [] rule = "child.paint("         -> ChildCallOpenEnd(ST.ChildPaint, s, i)
    [] rule = "layout_child _ctx"    -> CtxCallEnd(ST.CtxLayoutChild, s, i)
    [] rule = "paint_child _ctx"     -> CtxCallEnd(ST.CtxPaintChild, s, i)
    [] rule = "fn _ctx"              -> FnCtxEnd(s, i)
    [] rule = "layout simple"        ->
         IF s[i] = RT.LayoutHead THEN DotAllFind(s, i + 1, RT.LayoutTail) ELSE 0
    [] rule = "paint simple"         ->
         IF s[i] = RT.PaintSig THEN DotAllFind(s, i + 1, RT.PaintBlock) ELSE 0
    [] rule = "ctx.child_size"       ->
         IF IsAt(s, i, << ST.LetChildSize, ST.Space, ST.CtxChildSize, UT.Semi >>)
         THEN i + 3 ELSE 0
    [] rule = "old_layout"           -> LiteralEnd(LT.OldLayout, s, i)
    [] rule = "cross_axis_extent"    -> LiteralEnd(LT.CrossOld, s, i)
    [] rule \in SizeNewRules         -> LiteralEnd(LT.SizeNew, s, i)

Replacement(rule, s, i, j) ==
  CASE rule = "import Render"        -> ImportRenderNew(s, i, j)
    [] rule = "import LayoutContext" -> ImportNameNew(MT.LayoutContext, s, i, j)
    [] rule = "import PaintContext"  -> ImportNameNew(MT.PaintContext, s, i, j)
    [] rule = "impl"                 -> ImplNew(s, i, j)
    [] rule = "layout"               -> LayoutNew(s, i, j)
    [] rule = "paint"                -> PaintNew(s, i, j)
    [] rule = "layout signature"     -> SigLayoutNew(s, i, j)
    [] rule = "paint signature"      -> SigPaintNew(s, i, j)
    [] rule = "child layout call"    -> ChildCallNew(s, i, j)
    [] rule = "child paint call"     -> ChildCallNew(s, i, j)
    [] rule = "rename _ctx"          -> RenameNew(s, i, j)
    [] rule = "Pattern 1"            ->
         IfLetCallNew(UT.ChildLayout, ST.CtxLayoutChild, s, i, j)
    [] rule = "Pattern 2"            ->
         IfLetCallNew(ST.ChildPaint, ST.CtxPaintChild, s, i, j)
    [] rule = "Pattern 3"            -> IgnoredLayoutNew(s, i, j)
    [] rule = "Pattern 4"            -> ChildPaintNew(s, i, j)
    [] rule = "Pattern 5"            -> ChildSizeNew(s, i, j)
    [] rule = "Pattern 6 layout"     -> SigCtxNew(ST.FnLayoutRef, s, i, j)
    [] rule = "Pattern 6 paint"      -> SigCtxNew(UT.FnPaintBox, s, i, j)
    [] rule = "Pattern 7"            -> IfLetNew(s, i, j)
    [] rule = "let let"              -> LetLetNew(s, i, j)
    [] rule = "child.layout("        -> << ST.CtxLayoutChild, MT.Comma >>
    [] rule = "child.paint("         -> << ST.CtxPaintChild, MT.Comma >>
    [] rule = "layout_child _ctx"    -> CtxCallNew(s, i, j)
    [] rule = "paint_child _ctx"     -> CtxCallNew(s, i, j)
    [] rule = "fn _ctx"              -> FnCtxNew(s, i, j)
    [] rule = "layout simple"        ->
         << RT.LayoutHeadNew >> \o SubSeq(s, i + 1, j - 1) \o << RT.LayoutTail >>
    [] rule = "paint simple"         ->
         << RT.PaintSigNew >> \o SubSeq(s, i + 1, j - 1) \o << RT.PaintBlockNew >>
    [] rule = "ctx.child_size"       -> << ST.ChildSizeFromTree >>
    [] rule = "old_layout"           -> << LT.NewLayout >>
    [] rule = "cross_axis_extent"    -> << LT.CrossNew >>
    [] rule \in SizeNewRules         -> << Placeholder(rule) >>

RECURSIVE SubFrom(_, _, _)
SubFrom(rule, s, i) ==
  IF i > Len(s) THEN << >>
  ELSE LET j == MatchEnd(rule, s, i)
       IN  IF j >= i
           THEN Replacement(rule, s, i, j) \o SubFrom(rule, s, j + 1)
           ELSE << s[i] >> \o SubFrom(rule, s, i + 1)

re_sub(rule, s) == SubFrom(rule, s, 1)

\* content = re.sub(...), statement after statement: the rules one after
\* another, each on the content the one before produced
RECURSIVE re_subs(_, _)
re_subs(rules, content) ==
  IF rules = << >> THEN content
  ELSE re_subs(Tail(rules), re_sub(Head(rules), content))

(***************************************************************************)
(* migrate_slivers.py                                                      *)
(***************************************************************************)
MigrateStep1(content) ==
  re_subs(<< "import Render", "import LayoutContext", "import PaintContext" >>,
          content)
MigrateStep2(content) == re_sub("impl", content)
MigrateStep3(content) == re_sub("layout", content)
MigrateStep4(content) == re_sub("paint", content)

\* the content migrate_file computes from the content it read
migrate_content(content) ==
  MigrateStep4(MigrateStep3(MigrateStep2(MigrateStep1(content))))

\* files_to_migrate (the first two of the list)
files_to_migrate == << "sliver_app_bar.rs", "sliver_fill_remaining.rs" >>

\* the lines the files of the sliver directory are made of
MigrateLines ==
  { << MT.Use, MT.Arity, MT.Comma, MT.LayoutContext, MT.Comma, MT.PaintContext, MT.Comma,
       MT.Render, MT.UseEnd >>,
    << MT.Impl, MT.Render, MT.For, MT.Render, MT.Sliver, MT.List, MT.Open >>,
    << MT.Impl, MT.Render, MT.For, MT.Render, MT.Box, MT.Open >>,
    << MT.Indent, MT.FnLayout, MT.LayoutContext, MT.RetSize, MT.Open >>,
    << MT.Indent, MT.FnPaint, MT.PaintContext, MT.RetCanvas, MT.Open >>,
    << MT.Close >> }

(***************************************************************************)
(* scripts/update_render_context.py                                        *)
(***************************************************************************)
update_layout_signature(content)   == re_sub("layout signature", content)
update_paint_signature(content)    == re_sub("paint signature", content)
update_child_layout_calls(content) == re_sub("child layout call", content)
update_child_paint_calls(content)  == re_sub("child paint call", content)

\* the four transformations of process_file, in its order
update_transformations(content) ==
  update_child_paint_calls(
    update_child_layout_calls(
      update_paint_signature(update_layout_signature(content))))

\* "Rename _ctx to ctx if it's actually used": the guard reads the content
\* the four transformations produced
update_rename(content) ==
  IF HasChildDot(content) /\ HasUnusedCtx(content)
  THEN re_sub("rename _ctx", content)
  ELSE content

\* a faulty process_file whose rename rule is guarded by the content read
StaleGuardContent(content) ==
  IF HasChildDot(content) /\ HasUnusedCtx(content)
  THEN re_sub("rename _ctx", update_transformations(content))
  ELSE update_transformations(content)

\* the content process_file computes from the content it read
update_content(content) == update_rename(update_transformations(content))

\* sys.argv[1:]
update_argv == << "render_opacity.rs", "render_padding.rs" >>

UpdateLines ==
  { << MT.Indent, UT.FnLayoutBox, MT.RetSize, MT.Open >>,
    << MT.Indent, UT.FnPaintBox, UT.RParen, MT.Open >>,
    << MT.Indent, UT.FnPaintBox, MT.Comma, UT.Underscore, UT.Ctx, UT.ParamType, UT.RParen,
       MT.Open >>,
    << UT.ChildLayout, UT.Constraints, UT.RParen, UT.Semi, UT.NL >>,
    << UT.ChildPaintP, UT.Offset, UT.RParen, UT.Semi, UT.NL >>,
    << MT.Close >> }

(***************************************************************************)
(* scripts/fix_remaining_patterns.py, fix_syntax_errors.py, final_cleanup.py*)
(***************************************************************************)
fix_all_patterns(content) ==
  re_subs(<< "Pattern 1", "Pattern 2", "Pattern 3", "Pattern 4", "Pattern 5",
             "Pattern 6 layout", "Pattern 6 paint", "Pattern 7" >>, content)

fix_syntax_error(content) ==
  re_subs(<< "let let", "child.layout(", "child.paint(" >>, content)

final_cleanup(content) ==
  re_subs(<< "layout_child _ctx", "paint_child _ctx", "fn _ctx" >>, content)

\* a faulty process_file that applies the patterns without the check
UnguardedContent(content) == fix_all_patterns(content)

\* the content a script's process_file computes from the content it read;
\* fix_remaining_patterns skips a file without 'self.child()'
remaining_content(content) ==
  IF ~HasSelfChild(content) THEN content ELSE fix_all_patterns(content)

\* the *.rs files glob finds, each with its subdirectory's place in the list
\* ['effects', 'layout', 'interaction', 'special']
GlobFiles == { "effects/offstage.rs", "layout/align.rs" }
SubdirIndex(file) == IF file = "effects/offstage.rs" THEN 1 ELSE 2

\* the orders in which main can meet the files: subdirectory by
\* subdirectory, in glob's order within one
GlobPlans ==
  { p \in [1..Cardinality(GlobFiles) -> GlobFiles] :
      /\ \A a, b \in DOMAIN p : a # b => p[a] # p[b]
      /\ \A a, b \in DOMAIN p : a < b => SubdirIndex(p[a]) <= SubdirIndex(p[b]) }

ScriptLines ==
  { << ST.LetSize, ST.Space, ST.IfLetChild, UT.NL >>,
    << ST.LetOffset, ST.Space, ST.IfLetChild, UT.NL >>,
    << ST.IfLetChild, UT.NL >>,
    << UT.ChildLayout, UT.Constraints, MT.Comma, UT.Underscore, UT.Ctx, UT.RParen, UT.Semi,
       UT.NL >>,
    << UT.ChildLayout, UT.Constraints, MT.Comma, UT.Underscore, UT.Ctx, UT.RParen, UT.NL >>,
    << ST.ChildPaint, ST.PainterOffset, MT.Comma, UT.Underscore, UT.Ctx, UT.RParen, UT.Semi,
       UT.NL >>,
    << ST.LetChildSize, ST.Space, ST.ChildSize, UT.Semi, UT.NL >>,
    << ST.FnLayoutRef, MT.Comma, UT.Underscore, UT.Ctx, UT.ParamType, MT.RetSize, MT.Open >>,
    << MT.Close >> }

(***************************************************************************)
(* scripts/fix_render_context.py                                           *)
(***************************************************************************)
fix_layout_simple(content) == re_sub("layout simple", content)
fix_paint_simple(content) == re_sub("paint simple", content)

\* the lines of a file: a paint signature, a statement of a body, the
\* simple pass-through block that ends a paint method, the end of a paint
\* method that is not simple, and a simple layout method
RenderLines ==
  { << MT.Indent, RT.PaintSig >>,
    << RT.Stmt >>,
    << RT.PaintBlock, UT.NL >>,
    << RT.OtherEnd >>,
    << MT.Indent, RT.LayoutHead, RT.Zero, RT.LayoutTail, UT.NL >> }

(***************************************************************************)
(* scripts/fix_child_size.py                                               *)
(***************************************************************************)
fix_child_size_in_paint(content) == re_sub("ctx.child_size", content)

\* files_to_fix (the first two of the list)
files_to_fix == << "special/fitted_box.rs", "layout/rotated_box.rs" >>

ChildSizeLines ==
  { << ST.LetChildSize, ST.Space, ST.CtxChildSize, UT.Semi, UT.NL >>,
    << ST.LetSize, ST.Space, ST.CtxChildSize, UT.Semi, UT.NL >>,
    << ST.LetChildSize, ST.Space, ST.ChildSize, UT.Semi, UT.NL >>,
    << MT.Close >> }

(***************************************************************************)
(* fix_sliver_layouts.py                                                   *)
(***************************************************************************)
fix_sliver_fill_remaining(content) == re_sub("old_layout", content)
fix_sliver_fill_viewport(content) == re_sub("Size::new fill_viewport", content)
fix_sliver_fixed_extent_list(content) ==
  re_sub("Size::new fixed_extent_list", content)
fix_sliver_grid(content) == re_sub("Size::new grid", content)
fix_sliver_list(content) ==
  re_subs(<< "cross_axis_extent", "Size::new list" >>, content)
fix_sliver_prototype_extent_list(content) ==
  re_sub("Size::new prototype_extent_list", content)
\* the content fix_sliver_app_bar computes when its check finds the text
fix_sliver_app_bar(content) == re_sub("Size::new app_bar", content)

\* the calls of main, in their order
layout_calls ==
  << "fix_sliver_fill_remaining", "fix_sliver_fill_viewport",
     "fix_sliver_fixed_extent_list", "fix_sliver_grid", "fix_sliver_list",
     "fix_sliver_prototype_extent_list", "fix_sliver_app_bar" >>

\* file_path of each function
LayoutFile(fn) ==
  CASE fn = "fix_sliver_fill_remaining"        -> "sliver_fill_remaining.rs"
    [] fn = "fix_sliver_fill_viewport"         -> "sliver_fill_viewport.rs"
    [] fn = "fix_sliver_fixed_extent_list"     -> "sliver_fixed_extent_list.rs"
    [] fn = "fix_sliver_grid"                  -> "sliver_grid.rs"
    [] fn = "fix_sliver_list"                  -> "sliver_list.rs"
    [] fn = "fix_sliver_prototype_extent_list" ->
         "sliver_prototype_extent_list.rs"
    [] fn = "fix_sliver_app_bar"               -> "sliver_app_bar.rs"

LayoutFiles == { LayoutFile(layout_calls[k]) : k \in DOMAIN layout_calls }

\* the lines the files of the sliver directory are made of, as far as
\* fix_sliver_layouts.py looks at them
LayoutLines ==
  { << ST.Indent8, LT.SizeNew, UT.NL >>,
    << ST.Indent8, LT.CrossOld, UT.NL >>,
    << ST.Indent8, LT.LetConstraints, UT.NL >>,
    << LT.OldLayout, UT.Semi, UT.NL >> }

(***************************************************************************)
(* Storage at the start of a session: some of the files exist, and the     *)
(* lines of the existing files are drawn from the family's lines.          *)
(***************************************************************************)
Range(q) == { q[k] : k \in DOMAIN q }

\* the lines of ls that the assignment a gives to file f, as one content
RECURSIVE Part(_, _, _)
Part(ls, a, f) ==
  IF ls = << >> THEN << >>
  ELSE (IF Head(a) = f THEN Head(ls) ELSE << >>) \o Part(Tail(ls), Tail(a), f)

\* the storage holds exactly the files F and, in them, at most n lines of
\* LineSet between them
DiskOf(F, LineSet, n) ==
  \E ls \in SeqsUpTo(LineSet, n) :
    \E a \in [1..Len(ls) -> F] : disk = [f \in F |-> Part(ls, a, f)]

\* ... any of the files may be missing
DiskOver(Files, LineSet, n) ==
  \E F \in SUBSET Files : DiskOf(F, LineSet, n)

(***************************************************************************)
(* A session: the scripts that are invoked, one after another, on one      *)
(* storage.  A script run twice in a row is the re-run over its own output.*)
(***************************************************************************)
InitSession(session) ==
  /\ scripts = session
  /\ cur = 1
  /\ pc = "main"
  /\ todo = << >>
  /\ count = 0
  /\ log = << >>

MigrateDisk == DiskOver(Range(files_to_migrate), MigrateLines, MaxLinesMigrate)

InitMigrate == InitSession(<< "migrate_slivers" >>) /\ MigrateDisk

\* the script run, and then run again over what it left
InitMigrateAgain ==
  InitSession(<< "migrate_slivers", "migrate_slivers" >>) /\ MigrateDisk

\* the three scripts in their intended sequence; glob lists files that exist
InitScripts ==
  /\ InitSession(<< "fix_remaining_patterns", "fix_syntax_errors",
                    "final_cleanup" >>)
  /\ DiskOf(GlobFiles, ScriptLines, MaxLinesScripts)

\* every file fix_sliver_layouts.py opens exists
InitLayouts ==
  /\ InitSession(<< "fix_sliver_layouts" >>)
  /\ DiskOf(LayoutFiles, LayoutLines, MaxLinesLayouts)

InitUpdate ==
  /\ InitSession(<< "update_render_context" >>)
  /\ DiskOver(Range(update_argv), UpdateLines, MaxLinesUpdate)

\* glob lists files that exist
InitRender ==
  /\ InitSession(<< "fix_render_context" >>)
  /\ DiskOf(GlobFiles, RenderLines, MaxLinesRender)

\* any of the files of files_to_fix may be missing
InitChildSize ==
  /\ InitSession(<< "fix_child_size" >>)
  /\ DiskOver(Range(files_to_fix), ChildSizeLines, MaxLinesChildSize)

\* the lists a script's main() may go through: files, or for
\* fix_sliver_layouts its calls
Plans(script) ==
  CASE script = "migrate_slivers" -> { files_to_migrate }
    [] script = "fix_sliver_layouts" -> { layout_calls }
    [] script = "update_render_context" -> { update_argv }
    [] script = "fix_child_size" -> { files_to_fix }
    [] script \in { "fix_remaining_patterns", "fix_syntax_errors",
                    "final_cleanup", "fix_render_context" } -> GlobPlans

\* main() starts: the counter (of the scripts that have one) is set to 0
\* and the loop gets its list
MainStart ==
  /\ pc = "main"
  /\ \E plan \in Plans(scripts[cur]) : todo' = plan
  /\ count' = 0
  /\ pc' = "loop"
  /\ UNCHANGED << scripts, cur, disk, log >>

\* the record of one call of a per-file function: the content it read, the
\* content it computed, whether it wrote the file, and the value it returned
Call(fn, file, read, after, wrote, ret) ==
  [ run |-> cur, script |-> scripts[cur], fn |-> fn, file |-> file,
    read |-> read, after |-> after, wrote |-> wrote, ret |-> ret ]

\* the end of a process_file (and of migrate_file): the content is written
\* if it differs from the content read, and the call returns whether it did
WriteIfChanged(fn, file, content) ==
  LET changed == content # disk[file]
  IN  /\ disk' = IF changed THEN [disk EXCEPT ![file] = content] ELSE disk
      /\ count' = IF changed THEN count + 1 ELSE count
      /\ log' = Append(log, Call(fn, file, disk[file], content, changed,
                                 IF changed THEN "True" ELSE "False"))

\* the end of a function of fix_sliver_layouts.py that has reached its
\* open(file_path, 'w'): the content is written; nothing is returned
WriteAlways(fn, content) ==
  /\ disk' = [disk EXCEPT ![LayoutFile(fn)] = content]
  /\ log' = Append(log, Call(fn, LayoutFile(fn), disk[LayoutFile(fn)], content,
                             TRUE, "None"))

\* migrate_slivers.main, one iteration on a file that exists: migrate_file
MigrateFile ==
  /\ pc = "loop" /\ scripts[cur] = "migrate_slivers" /\ todo # << >>
  /\ Head(todo) \in DOMAIN disk
  /\ WriteIfChanged("migrate_file", Head(todo), migrate_content(disk[Head(todo)]))
  /\ todo' = Tail(todo)
  /\ UNCHANGED << scripts, cur, pc >>

\* migrate_slivers.main, one iteration on a file that does not exist: a warning
MigrateNotFound ==
  /\ pc = "loop" /\ scripts[cur] = "migrate_slivers" /\ todo # << >>
  /\ Head(todo) \notin DOMAIN disk
  /\ todo' = Tail(todo)
  /\ UNCHANGED << scripts, cur, pc, disk, count, log >>

\* update_render_context, one iteration on a file that exists: process_file
UpdateProcessFile ==
  /\ pc = "loop" /\ scripts[cur] = "update_render_context" /\ todo # << >>
  /\ Head(todo) \in DOMAIN disk
  /\ WriteIfChanged("process_file", Head(todo), update_content(disk[Head(todo)]))
  /\ todo' = Tail(todo)
  /\ UNCHANGED << scripts, cur, pc >>

\* update_render_context, one iteration on a file that does not exist
UpdateNotFound ==
  /\ pc = "loop" /\ scripts[cur] = "update_render_context" /\ todo # << >>
  /\ Head(todo) \notin DOMAIN disk
  /\ todo' = Tail(todo)
  /\ UNCHANGED << scripts, cur, pc, disk, count, log >>

\* fix_remaining_patterns.main, one iteration: process_file
RemainingProcessFile ==
  /\ pc = "loop" /\ scripts[cur] = "fix_remaining_patterns" /\ todo # << >>
  /\ WriteIfChanged("process_file", Head(todo), remaining_content(disk[Head(todo)]))
  /\ todo' = Tail(todo)
  /\ UNCHANGED << scripts, cur, pc >>

\* fix_syntax_errors.main, one iteration: process_file
SyntaxProcessFile ==
  /\ pc = "loop" /\ scripts[cur] = "fix_syntax_errors" /\ todo # << >>
  /\ WriteIfChanged("process_file", Head(todo), fix_syntax_error(disk[Head(todo)]))
  /\ todo' = Tail(todo)
  /\ UNCHANGED << scripts, cur, pc >>

\* final_cleanup.main, one iteration: process_file
CleanupProcessFile ==
  /\ pc = "loop" /\ scripts[cur] = "final_cleanup" /\ todo # << >>
  /\ WriteIfChanged("process_file", Head(todo), final_cleanup(disk[Head(todo)]))
  /\ todo' = Tail(todo)
  /\ UNCHANGED << scripts, cur, pc >>

\* fix_render_context.main, one iteration: process_file
RenderProcessFile ==
  /\ pc = "loop" /\ scripts[cur] = "fix_render_context" /\ todo # << >>
  /\ WriteIfChanged("process_file", Head(todo),
                    fix_paint_simple(fix_layout_simple(disk[Head(todo)])))
  /\ todo' = Tail(todo)
  /\ UNCHANGED << scripts, cur, pc >>

\* fix_child_size.main, one iteration on a file that exists: process_file
ChildSizeProcessFile ==
  /\ pc = "loop" /\ scripts[cur] = "fix_child_size" /\ todo # << >>
  /\ Head(todo) \in DOMAIN disk
  /\ WriteIfChanged("process_file", Head(todo),
                    fix_child_size_in_paint(disk[Head(todo)]))
  /\ todo' = Tail(todo)
  /\ UNCHANGED << scripts, cur, pc >>

\* fix_child_size.main, one iteration on a file that does not exist: the
\* open() of process_file raises FileNotFoundError, nothing catches it, and
\* the script ends there with the rest of its list not looked at
ChildSizeOpenFails ==
  /\ pc = "loop" /\ scripts[cur] = "fix_child_size" /\ todo # << >>
  /\ Head(todo) \notin DOMAIN disk
  /\ pc' = "crashed"
  /\ UNCHANGED << scripts, cur, todo, disk, count, log >>

\* a call of main that is at the head of the list
AtCall(fn) ==
  /\ pc = "loop" /\ scripts[cur] = "fix_sliver_layouts" /\ todo # << >>
  /\ Head(todo) = fn

FixSliverFillRemaining ==
  /\ AtCall("fix_sliver_fill_remaining")
  /\ WriteAlways(Head(todo), fix_sliver_fill_remaining(disk[LayoutFile(Head(todo))]))
  /\ todo' = Tail(todo)
  /\ UNCHANGED << scripts, cur, pc, count >>

FixSliverFillViewport ==
  /\ AtCall("fix_sliver_fill_viewport")
  /\ WriteAlways(Head(todo), fix_sliver_fill_viewport(disk[LayoutFile(Head(todo))]))
  /\ todo' = Tail(todo)
  /\ UNCHANGED << scripts, cur, pc, count >>

FixSliverFixedExtentList ==
  /\ AtCall("fix_sliver_fixed_extent_list")
  /\ WriteAlways(Head(todo),
                 fix_sliver_fixed_extent_list(disk[LayoutFile(Head(todo))]))
  /\ todo' = Tail(todo)
  /\ UNCHANGED << scripts, cur, pc, count >>

FixSliverGrid ==
  /\ AtCall("fix_sliver_grid")
  /\ WriteAlways(Head(todo), fix_sliver_grid(disk[LayoutFile(Head(todo))]))
  /\ todo' = Tail(todo)
  /\ UNCHANGED << scripts, cur, pc, count >>

FixSliverList ==
  /\ AtCall("fix_sliver_list")
  /\ WriteAlways(Head(todo), fix_sliver_list(disk[LayoutFile(Head(todo))]))
  /\ todo' = Tail(todo)
  /\ UNCHANGED << scripts, cur, pc, count >>

FixSliverPrototypeExtentList ==
  /\ AtCall("fix_sliver_prototype_extent_list")
  /\ WriteAlways(Head(todo),
                 fix_sliver_prototype_extent_list(disk[LayoutFile(Head(todo))]))
  /\ todo' = Tail(todo)
  /\ UNCHANGED << scripts, cur, pc, count >>

\* a faulty fix_sliver_app_bar that rewrites the file without the check
AppBarUnguarded ==
  /\ AtCall("fix_sliver_app_bar")
  /\ WriteAlways(Head(todo), fix_sliver_app_bar(disk[LayoutFile(Head(todo))]))
  /\ todo' = Tail(todo)
  /\ UNCHANGED << scripts, cur, pc, count >>

\* fix_sliver_app_bar: the file is rewritten when the check finds the text,
\* and left alone (a message only) when it does not
FixSliverAppBar ==
  /\ AtCall("fix_sliver_app_bar")
  /\ LET file == LayoutFile(Head(todo))
     IN  IF HasMaxWidth(disk[file])
         THEN WriteAlways(Head(todo), fix_sliver_app_bar(disk[file]))
         ELSE /\ log' = Append(log, Call(Head(todo), file, disk[file],
                                         disk[file], FALSE, "None"))
              /\ UNCHANGED disk
  /\ todo' = Tail(todo)
  /\ UNCHANGED << scripts, cur, pc, count >>

\* a faulty main() that may return before its loop has seen every file
EarlyReturn ==
  /\ pc = "loop"
  /\ cur' = cur + 1
  /\ pc' = IF cur = Len(scripts) THEN "finished" ELSE "main"
  /\ UNCHANGED << scripts, todo, disk, count, log >>

\* main() returns; the next script of the session, if any, is invoked
MainReturn ==
  /\ pc = "loop" /\ todo = << >>
  /\ cur' = cur + 1
  /\ pc' = IF cur = Len(scripts) THEN "finished" ELSE "main"
  /\ UNCHANGED << scripts, todo, disk, count, log >>

NextMigrate ==
  \/ MainStart
  \/ MigrateFile
  \/ MigrateNotFound
  \/ MainReturn

SpecMigrate == InitMigrate /\ [][NextMigrate]_vars

SpecMigrateAgain == InitMigrateAgain /\ [][NextMigrate]_vars

NextUpdate ==
  \/ MainStart
  \/ UpdateProcessFile
  \/ UpdateNotFound
  \/ MainReturn

SpecUpdate == InitUpdate /\ [][NextUpdate]_vars

NextRender ==
  \/ MainStart
  \/ RenderProcessFile
  \/ MainReturn

SpecRender == InitRender /\ [][NextRender]_vars

NextChildSize ==
  \/ MainStart
  \/ ChildSizeProcessFile
  \/ ChildSizeOpenFails
  \/ MainReturn

SpecChildSize == InitChildSize /\ [][NextChildSize]_vars

NextScripts ==
  \/ MainStart
  \/ RemainingProcessFile
  \/ SyntaxProcessFile
  \/ CleanupProcessFile
  \/ MainReturn

SpecScripts == InitScripts /\ [][NextScripts]_vars

NextLayouts ==
  \/ MainStart
  \/ FixSliverFillRemaining
  \/ FixSliverFillViewport
  \/ FixSliverFixedExtentList
  \/ FixSliverGrid
  \/ FixSliverList
  \/ FixSliverPrototypeExtentList
  \/ FixSliverAppBar
  \/ MainReturn

SpecLayouts == InitLayouts /\ [][NextLayouts]_vars

\* the two guarded rule sets together: fix_remaining_patterns.process_file
\* and fix_sliver_layouts.fix_sliver_app_bar
InitGuarded == InitScripts \/ InitLayouts
NextGuarded ==
  \/ MainStart
  \/ RemainingProcessFile
  \/ SyntaxProcessFile
  \/ CleanupProcessFile
  \/ FixSliverFillRemaining
  \/ FixSliverFillViewport
  \/ FixSliverFixedExtentList
  \/ FixSliverGrid
  \/ FixSliverList
  \/ FixSliverPrototypeExtentList
  \/ FixSliverAppBar
  \/ MainReturn
SpecGuarded == InitGuarded /\ [][NextGuarded]_vars

(***************************************************************************)
(* Properties.  Each is stated on the record of the calls made so far.     *)
(***************************************************************************)
\* the most recent call
Last == log[Len(log)]

\* C1: a second run over the output of a first run changes no file: every
\* call of the per-file function in the second run of the same script
\* computes the content it read, writes nothing and returns False.
C1_SecondRunChangesNothing ==
  \A k \in DOMAIN log :
    log[k].run = 2 =>
      /\ log[k].after = log[k].read
      /\ ~log[k].wrote
      /\ log[k].ret = "False"

\* C2: in the sequence fix_remaining_patterns, fix_syntax_errors,
\* final_cleanup, when a file is taken through a script after the first,
\* every file of the target set has already been through the script before
\* it, and the content read is the content the script before left for it.
C2_PassByPass ==
  \A k \in DOMAIN log :
    log[k].run > 1 =>
      /\ \A f \in GlobFiles :
           \E j \in 1..(k - 1) : log[j].run = log[k].run - 1 /\ log[j].file = f
      /\ \E j \in 1..(k - 1) :
           /\ log[j].run = log[k].run - 1
           /\ log[j].file = log[k].file
           /\ log[k].read = log[j].after

\* C2, its case: the third script takes a file that the first and the
\* second script have both rewritten.
C2_Witness ==
  \E i, j, k \in DOMAIN log :
    /\ log[i].run = 1 /\ log[j].run = 2 /\ log[k].run = 3
    /\ log[i].file = log[k].file /\ log[j].file = log[k].file
    /\ log[i].wrote /\ log[j].wrote

\* C3: a file is written only if the content after the transformations
\* differs from the content read from it.
C3_WriteOnlyIfChanged ==
  \A k \in DOMAIN log : log[k].wrote => log[k].after # log[k].read

\* the call that took the file of the most recent call through the script
\* before (the most recent call is of a later script of the session)
Before ==
  log[CHOOSE j \in DOMAIN log :
        log[j].run = Last.run - 1 /\ log[j].file = Last.file]

\* 'let size = if let Some(child) = self.child() {' in content
HasLetSizeIfLet(s) == Contains(s, << ST.LetSize, ST.Space, ST.IfLetChild >>)

\* the call just made is fix_syntax_errors' on a file that held
\* 'let size = if let Some(child) = self.child() {' before
\* fix_remaining_patterns took it
LetSizeCase ==
  /\ log # << >>
  /\ Last.script = "fix_syntax_errors"
  /\ HasLetSizeIfLet(Before.read)

\* C4: for every content that holds 'let size = if let Some(child) =
\* self.child() {', fix_all_patterns followed by fix_syntax_error (the
\* declared order, which the two scripts have just applied to the file)
\* gives a content different from fix_syntax_error followed by
\* fix_all_patterns: such contents are inputs on which the two do not commute.
C4_OrderMatters ==
  LetSizeCase =>
    /\ Last.after = fix_syntax_error(fix_all_patterns(Before.read))
    /\ Last.after # fix_all_patterns(fix_syntax_error(Before.read))

\* C4, its case: a file with that statement has been through both scripts,
\* the second of which repaired what the first left.
C4_Witness ==
  /\ LetSizeCase
  /\ Before.wrote /\ Last.wrote
  /\ Contains(Last.after, << ST.ChildrenIds, UT.NL, ST.Indent8, ST.LetSize >>)
  /\ ~Contains(fix_all_patterns(fix_syntax_error(Before.read)),
               << ST.ChildrenIds, UT.NL, ST.Indent8, ST.LetSize >>)

\* a call of a function whose rules stand behind a check for a text T, and
\* whether the content it read holds T
GuardedCall(e) ==
  \/ e.script = "fix_remaining_patterns"
  \/ e.fn = "fix_sliver_app_bar"
HoldsT(e) ==
  IF e.script = "fix_remaining_patterns"
  THEN HasSelfChild(e.read) ELSE HasMaxWidth(e.read)

\* C5 as stated: if T is present in the content, the guarded rules leave
\* the content unchanged.
C5_PresentLeavesUnchanged ==
  \A k \in DOMAIN log :
    GuardedCall(log[k]) /\ HoldsT(log[k]) => log[k].after = log[k].read

\* C5 amended: if T is absent from the content, the guarded rules are not
\* applied: the content is unchanged and the file is not written.
C5_AbsentLeavesUnchanged ==
  \A k \in DOMAIN log :
    GuardedCall(log[k]) /\ ~HoldsT(log[k]) =>
      log[k].after = log[k].read /\ ~log[k].wrote

\* C5, its case: fix_sliver_app_bar has met a file with some content and
\* without 'constraints.max_width'.
C5_Witness ==
  \E k \in DOMAIN log :
    /\ log[k].fn = "fix_sliver_app_bar"
    /\ log[k].read # << >>
    /\ ~HasMaxWidth(log[k].read)
    /\ disk[log[k].file] = log[k].read

\* C6: fix_remaining_patterns.process_file on a content without
\* 'self.child()' applies none of the patterns, does not write the file and
\* returns False.
C6_SkipWithoutSelfChild ==
  \A k \in DOMAIN log :
    (log[k].script = "fix_remaining_patterns" /\ ~HasSelfChild(log[k].read)) =>
      /\ log[k].after = log[k].read
      /\ ~log[k].wrote
      /\ log[k].ret = "False"

\* C6, its case: the content has no 'self.child()' and holds 'child.size()'
\* or a '_ctx' signature, which patterns 5 and 6 would rewrite.
C6_Witness ==
  \E k \in DOMAIN log :
    /\ log[k].script = "fix_remaining_patterns"
    /\ ~HasSelfChild(log[k].read)
    /\ Contains(log[k].read, << ST.ChildSize >>)
    /\ fix_all_patterns(log[k].read) # log[k].read

\* C7: in update_render_context.process_file the guard of the rename rule
\* reads the content the four preceding rules produced: if the final content
\* holds 'child.', it holds no '_ctx: &flui_core::RenderContext', a parameter
\* inserted in this same run included; if the content after the four rules
\* holds no 'child.', the final content is that content, every inserted
\* parameter still named '_ctx'.
C7_GuardOnCurrentContent ==
  \A k \in DOMAIN log :
    LET mid == update_transformations(log[k].read)
    IN  /\ HasChildDot(log[k].after) =>
             ~Contains(log[k].after, UnusedCtxParam)
        /\ ~HasChildDot(mid) => log[k].after = mid

\* C7, its case: the content read has no '_ctx' at all, a signature rule
\* inserts the parameter, a 'child.' call is there, and the parameter ends
\* up named 'ctx'.
C7_Witness ==
  \E k \in DOMAIN log :
    /\ ~HasUnusedCtx(log[k].read)
    /\ Contains(update_transformations(log[k].read), UnusedCtxParam)
    /\ HasChildDot(log[k].after)
    /\ Contains(log[k].after, << MT.Comma, UT.Ctx, UT.ParamType >>)
    /\ disk[log[k].file] = log[k].after

\* the tokens re.sub(rule, ...) matches in s: the matches found from the
\* left, none overlapping another of the same rule
RECURSIVE SpansFrom(_, _, _)
SpansFrom(rule, s, i) ==
  IF i > Len(s) THEN {}
  ELSE LET j == MatchEnd(rule, s, i)
       IN  IF j >= i THEN (i..j) \cup SpansFrom(rule, s, j + 1)
           ELSE SpansFrom(rule, s, i + 1)
Spans(rule, s) == SpansFrom(rule, s, 1)

\* the orders of the rules of steps 2, 3 and 4
StepOrders ==
  { << "impl", "layout", "paint" >>, << "impl", "paint", "layout" >>,
    << "layout", "impl", "paint" >>, << "layout", "paint", "impl" >>,
    << "paint", "impl", "layout" >>, << "paint", "layout", "impl" >> }

\* C8: on the content step 1 hands on, the rules of steps 2, 3 and 4 of
\* migrate_file match pairwise disjoint spans, and applied in any of their
\* six orders they give the content migrate_file computed, whenever
\* migrate_file has just been called.  (The contents
\* are made of lines of Rust, in which a type name is not followed directly
\* by 'fn'.)
C8_StepsCommute ==
  (pc = "loop" /\ log # << >>) =>
    LET c == MigrateStep1(Last.read)
    IN  /\ Spans("impl", c) \cap Spans("layout", c) = {}
        /\ Spans("impl", c) \cap Spans("paint", c) = {}
        /\ Spans("layout", c) \cap Spans("paint", c) = {}
        /\ \A order \in StepOrders : re_subs(order, c) = Last.after

\* C8, its case: each of the three rules has a match in the file.
C8_Witness ==
  /\ log # << >>
  /\ Spans("impl", MigrateStep1(Last.read)) # {}
  /\ Spans("layout", MigrateStep1(Last.read)) # {}
  /\ Spans("paint", MigrateStep1(Last.read)) # {}
  /\ Last.after # Last.read

\* the number of places of s where pat stands
Count(s, pat) == Cardinality({ i \in 1..Len(s) : IsAt(s, i, pat) })

OldSignature == << MT.FnLayout, MT.LayoutContext, MT.RetSize >>
NewSignature ==
  << MT.FnLayout, MT.Sliver, MT.LayoutContext, MT.RetGeometry >>

\* C9: migrate_file on a content that holds
\* 'fn layout(&mut self, ctx: &LayoutContext) -> Size': afterwards the
\* content holds no such signature, holds
\* 'fn layout(&mut self, ctx: &SliverLayoutContext) -> SliverGeometry' once
\* more for each one it held (the line with ' {' after it likewise), the file
\* has been written with that content and the call has returned True.
C9_LayoutSignature ==
  (log # << >> /\ Contains(Last.read, OldSignature)) =>
    /\ ~Contains(Last.after, OldSignature)
    /\ Count(Last.after, NewSignature)
         = Count(Last.read, NewSignature) + Count(Last.read, OldSignature)
    /\ Count(Last.after, NewSignature \o << MT.Open >>)
         = Count(Last.read, NewSignature \o << MT.Open >>)
             + Count(Last.read, OldSignature \o << MT.Open >>)
    /\ Last.wrote
    /\ Last.ret = "True"
    /\ disk[Last.file] = Last.after

\* C9, its case: the line 'fn layout(&mut self, ctx: &LayoutContext) -> Size {'
\* was read and the line with the new signature is in the file.
C9_Witness ==
  /\ log # << >>
  /\ Contains(Last.read, << MT.Indent >> \o OldSignature \o << MT.Open >>)
  /\ Contains(disk[Last.file],
              << MT.Indent >> \o NewSignature \o << MT.Open >>)
  /\ Last.ret = "True"

\* the five functions whose rule replaces Size::new(...) by a placeholder,
\* and the literal in the source of each
PlaceholderFunctions ==
  { "fix_sliver_fill_viewport", "fix_sliver_fixed_extent_list",
    "fix_sliver_grid", "fix_sliver_list", "fix_sliver_prototype_extent_list" }
Literal(fn) ==
  CASE fn = "fix_sliver_fill_viewport"         -> LT.FillViewport
    [] fn = "fix_sliver_fixed_extent_list"     -> LT.FixedExtentList
    [] fn = "fix_sliver_grid"                  -> LT.Grid
    [] fn = "fix_sliver_list"                  -> LT.ListTodo
    [] fn = "fix_sliver_prototype_extent_list" -> LT.PrototypeExtentList

\* the line of s that token i is in, and whether that line holds
\* 'Size::new(constraints.max_width, constraints.max_height)'
LineOf(s, i) == Cardinality({ k \in 1..(i - 1) : s[k] = UT.NL })
OccurrenceInLine(s, i) ==
  \E k \in 1..Len(s) : LineOf(s, k) = LineOf(s, i) /\ s[k] = LT.SizeNew

\* C10 as stated: each of the five functions replaces every
\* 'Size::new(constraints.max_width, constraints.max_height)' by its own
\* placeholder, verbatim, and every line without such an occurrence is the
\* same before and after the call.
C10_OnlyPlaceholderLinesChange ==
  \A k \in DOMAIN log :
    log[k].fn \in PlaceholderFunctions =>
      /\ Len(log[k].after) = Len(log[k].read)
      /\ \A i \in 1..Len(log[k].read) :
           /\ log[k].read[i] = LT.SizeNew =>
                log[k].after[i] = Literal(log[k].fn)
           /\ ~OccurrenceInLine(log[k].read, i) =>
                log[k].after[i] = log[k].read[i]

\* C10 amended: each of the five functions replaces every
\* 'Size::new(constraints.max_width, constraints.max_height)' by its own
\* placeholder, verbatim; fix_sliver_list also rewrites every
\* 'self.cross_axis_extent = constraints.max_width;' to
\* 'self.cross_axis_extent = ctx.constraints.cross_axis_extent;'; every
\* other text of the file, so every line with neither, is the same before
\* and after the call, and the file is written with that content.
C10_PlaceholderAndCrossAxis ==
  \A k \in DOMAIN log :
    log[k].fn \in PlaceholderFunctions =>
      /\ Len(log[k].after) = Len(log[k].read)
      /\ \A i \in 1..Len(log[k].read) :
           log[k].after[i] =
             IF log[k].read[i] = LT.SizeNew THEN Literal(log[k].fn)
             ELSE IF log[k].read[i] = LT.CrossOld /\ log[k].fn = "fix_sliver_list"
                  THEN LT.CrossNew
                  ELSE log[k].read[i]
      /\ log[k].wrote

\* C10, its case: fix_sliver_list has rewritten a file that held both
\* texts.
C10_Witness ==
  \E k \in DOMAIN log :
    /\ log[k].fn = "fix_sliver_list"
    /\ Contains(log[k].read, << LT.SizeNew >>)
    /\ Contains(log[k].read, << LT.CrossOld >>)
    /\ Contains(disk[log[k].file], << LT.ListTodo >>)
    /\ Contains(disk[log[k].file], << LT.CrossNew >>)

\* the rules the per-file function of a call applies to the content it read
RulesOf(c) ==
  CASE c.script = "migrate_slivers" ->
         { "import Render", "import LayoutContext", "import PaintContext",
           "impl", "layout", "paint" }
    [] c.script = "update_render_context" ->
         { "layout signature", "paint signature", "child layout call",
           "child paint call", "rename _ctx" }
    [] c.script = "fix_remaining_patterns" ->
         { "Pattern 1", "Pattern 2", "Pattern 3", "Pattern 4", "Pattern 5",
           "Pattern 6 layout", "Pattern 6 paint", "Pattern 7" }
    [] c.script = "fix_syntax_errors" ->
         { "let let", "child.layout(", "child.paint(" }
    [] c.script = "final_cleanup" ->
         { "layout_child _ctx", "paint_child _ctx", "fn _ctx" }
    [] c.script = "fix_render_context" -> { "layout simple", "paint simple" }
    [] c.script = "fix_child_size" -> { "ctx.child_size" }
    [] c.fn = "fix_sliver_fill_remaining" -> { "old_layout" }
    [] c.fn = "fix_sliver_fill_viewport" -> { "Size::new fill_viewport" }
    [] c.fn = "fix_sliver_fixed_extent_list" ->
         { "Size::new fixed_extent_list" }
    [] c.fn = "fix_sliver_grid" -> { "Size::new grid" }
    [] c.fn = "fix_sliver_list" -> { "cross_axis_extent", "Size::new list" }
    [] c.fn = "fix_sliver_prototype_extent_list" ->
         { "Size::new prototype_extent_list" }
    [] c.fn = "fix_sliver_app_bar" -> { "Size::new app_bar" }

\* C11: a file in which no rule's pattern matches is reported as not
\* changed -- its per-file function returns False and prints no 'Fixed' or
\* 'Updated' line -- and the content the call leaves for it is the content
\* it read.  (Every per-file function prints its 'Fixed' / 'Updated' line
\* in the branch that writes the file, and only there.)
C11_NoMatchReportedUnchanged ==
  LET NoMatch(rules, s) ==
        \A rule \in rules : \A i \in 1..Len(s) : MatchEnd(rule, s, i) = 0
      SaysFixed(c) == c.wrote
  IN  \A k \in DOMAIN log :
        NoMatch(RulesOf(log[k]), log[k].read) =>
          /\ log[k].ret = "False"
          /\ ~SaysFixed(log[k])
          /\ log[k].after = log[k].read

\* C12: a file that cannot be read stops nothing but itself.  When a run of
\* fix_child_size is over, every file of files_to_fix that exists has been
\* through process_file -- read, transformed and, if changed, written -- and
\* a file that does not exist has not been written.
C12_FailureStopsNothingElse ==
  pc \in { "finished", "crashed" } =>
    \A f \in Range(files_to_fix) :
      IF f \in DOMAIN disk
      THEN \E k \in DOMAIN log :
             /\ log[k].file = f
             /\ log[k].after = fix_child_size_in_paint(log[k].read)
             /\ disk[f] = log[k].after
      ELSE \A k \in DOMAIN log : log[k].file # f

\* C13: after fix_remaining_patterns and then fix_syntax_errors have been
\* through a file, the file holds no statement of the form
\* 'let <name> = let children_ids = ctx.children();', whatever the name.
C13_NoLetLetLeft ==
  LET HasLetLet(s) ==
        \E i \in 1..Len(s) :
          /\ s[i] \in { ST.LetSize, ST.LetChildSize, ST.LetOffset }
          /\ IsAt(s, i + 1, << ST.Space, ST.ChildrenIds >>)
  IN  \A k \in DOMAIN log :
        log[k].script = "fix_syntax_errors" => ~HasLetLet(log[k].after)

\* C14: fix_paint_simple rewrites the block and the signature of one and the
\* same paint method: in the content process_file computes, every block
\* that has been rewritten to ctx.children() / ctx.paint_child stands under
\* a paint signature that has been renamed to 'ctx', never under one that
\* still declares '_ctx'.  (The signature a block stands under is the
\* nearest 'fn paint(' before it.)
C14_BlockUnderRenamedSignature ==
  LET PaintSignatureOf(s, j) ==
        s[Max({ i \in 1..(j - 1) : s[i] \in { RT.PaintSig, RT.PaintSigNew } })]
  IN  \A k \in DOMAIN log :
        log[k].script = "fix_render_context" =>
          \A j \in 1..Len(log[k].after) :
            log[k].after[j] = RT.PaintBlockNew =>
              PaintSignatureOf(log[k].after, j) = RT.PaintSigNew

====
